---- MODULE Spec2Model ----
(***************************************************************************)
(* A model of message-sink: the length-prefixed frame codec (frame.rs),    *)
(* the outbound notify buffer (async_buffer.rs) and the poll-driven        *)
(* MessageSink (lib.rs).                                                   *)
(*                                                                         *)
(* CodecSpec applies the codec's pure functions to bounded inputs, as the   *)
(* tests of frame.rs do.  Spec drives a MessageSink over an abstract       *)
(* stream whose every response (byte count, would-block, fault) is a       *)
(* nondeterministic choice, polled whenever the caller likes.  PolledSpec  *)
(* is Spec with a caller that keeps polling a closing sink, LoopSpec puts  *)
(* the sink on a loopback stream as the tests of lib.rs do, and WakeSpec   *)
(* polls the sink only after one of its wakers has fired.                  *)
(***************************************************************************)
EXTENDS Integers, Sequences, FiniteSets, TLC

(***************************************************************************)
(* Bounds of the model.                                                    *)
(***************************************************************************)
MaxByte == 0        \* payload bytes range over 0..MaxByte
MaxMsgLen == 1      \* longest payload of an encodable message
MaxFrames == 3      \* frames encoded into the codec buffer
MaxExtra == 4       \* raw bytes appended after the frames in the codec buffer
MaxTraffic == 3     \* frames through the sink: accepted by write() or sent by the peer
LimitArg == 4       \* the length limit() is called with

(***************************************************************************)
(* Program constants.                                                      *)
(***************************************************************************)
HeaderLen == 4       \* bytes of the length prefix, a u32
ScratchLen == 1024   \* MessageSink::scratch
UsizeBits == 64      \* width of usize on the build target
NarrowBits == 16     \* width of usize on the narrowest targets Rust has
USIZE_MAX == -1      \* stands for usize::MAX, which no buffer length reaches

(***************************************************************************)
(* State.                                                                  *)
(***************************************************************************)
VARIABLES
    \* MessageSink fields
    status,          \* SinkStatus: "Open", "Closing", "Closed"
    read_buffer,     \* inbound bytes not yet returned as a message
    write_buffer,    \* AsyncBuffer::buffer, outbound bytes not yet written
    waker,           \* AsyncBuffer::waker is Some
    limit,           \* USIZE_MAX, or the length given to limit()
    \* the poll in flight
    pc,              \* "idle", or "read" inside the read loop of poll
    \* what the last step did
    result,          \* [kind, message] returned by the poll that ended in it
    op,              \* stream operation it performed: "write", "read", "close"
    response,        \* [kind, n]: what the stream answered to that operation
    write_result,    \* what write() returned in it: "Ok", "Corrupt"
    woken,           \* it woke the registered waker
    \* the stream
    stream_in,       \* bytes the peer has sent that no read has returned yet
    stream_eof,      \* the peer has shut down its write side
    \* history
    sent,            \* messages the peer framed onto the stream
    rx,              \* every byte returned by a read
    tx,              \* every byte accepted by a write
    written,         \* messages accepted by write()
    delivered,       \* messages returned by polls
    \* the codec exercised on its own
    codec_messages,  \* messages encoded into codec_buffer
    codec_extra,     \* raw bytes appended after the frames
    codec_buffer,    \* the Vec<u8> handed to Frame::try_from
    codec_cut,       \* bytes truncated off codec_buffer, not yet appended again
    codec_parsed,    \* messages decoded so far
    codec_result,    \* kind of the last Frame::try_from result, or "none"
    \* the tasks' wakers, followed where polls wait for them (wake_driven)
    notified,        \* the polling task has been woken, or has not suspended
    read_waker,      \* the stream holds its waker for read-readiness
    write_waker,     \* the stream holds its waker for write-readiness
    \* the setting, fixed by Init
    stream_kind,     \* "peer", or "loopback": written bytes come back to be read
    wake_driven,     \* the sink is polled only when a waker has fired
    usize_bits       \* width of usize on the build target

sink_vars == << status, read_buffer, write_buffer, waker, limit, pc, result, op,
                response, write_result, woken, stream_in, stream_eof, sent, rx, tx, written,
                delivered, notified, read_waker, write_waker >>

codec_vars == << codec_messages, codec_extra, codec_buffer, codec_cut,
                 codec_parsed, codec_result >>

config_vars == << stream_kind, wake_driven, usize_bits >>

vars == << sink_vars, codec_vars, config_vars >>

(***************************************************************************)
(* Messages.  A message is a byte sequence; Oversize stands for a message  *)
(* of 2^32 bytes, the shortest one whose length does not fit a u32; it is   *)
(* written as a sequence holding a value that no byte has.                 *)
(***************************************************************************)
Oversize == << 256 >>

ByteVals == 0..MaxByte

RECURSIVE SeqsUpTo(_, _)
SeqsUpTo(S, n) ==
    IF n = 0 THEN {<<>>}
    ELSE LET shorter == SeqsUpTo(S, n - 1)
         IN  shorter \cup {Append(s, b) : s \in {t \in shorter : Len(t) = n - 1}, b \in S}

MessageSet == SeqsUpTo(ByteVals, MaxMsgLen)

\* The messages handed to write() and framed by the peer: an empty and a
\* non-empty one.
SinkMessages == { <<>>, << 0 >> }

\* usize -> u32 (self.0.len().try_into()): fails for lengths of 2^32 and more.
LenFitsU32(message) == message # Oversize

\* u32 -> usize (u32::from_le_bytes(header).try_into()): fails only where
\* usize is narrower than 32 bits.
FitsUsize(size) == usize_bits >= 32 \/ size < 2 ^ usize_bits

(***************************************************************************)
(* Vec<u8> helpers.                                                        *)
(***************************************************************************)
\* Vec::drain(0..n): the removed prefix and what stays in the vector.
DrainLeavesOne(buffer, n) ==
    [taken |-> SubSeq(buffer, 1, n),
     rest |-> IF n = 0 THEN buffer ELSE SubSeq(buffer, n, Len(buffer))]

Drain(buffer, n) ==
    [taken |-> SubSeq(buffer, 1, n), rest |-> SubSeq(buffer, n + 1, Len(buffer))]

\* u32::to_le_bytes
to_le_bytes_big_endian(size) ==
    << (size \div 16777216) % 256, (size \div 65536) % 256,
       (size \div 256) % 256, size % 256 >>

to_le_bytes(size) ==
    << size % 256, (size \div 256) % 256,
       (size \div 65536) % 256, (size \div 16777216) % 256 >>

\* u32::from_le_bytes
from_le_bytes_big_endian(header) ==
    header[4] + 256 * header[3] + 65536 * header[2] + 16777216 * header[1]

from_le_bytes(header) ==
    header[1] + 256 * header[2] + 65536 * header[3] + 16777216 * header[4]

(***************************************************************************)
(* Frame codec (frame.rs).                                                 *)
(***************************************************************************)
\* impl TryInto<Vec<u8>> for Frame
try_into_counts_header(message) ==
    IF ~LenFitsU32(message)
    THEN [kind |-> "Corrupt", bytes |-> <<>>]
    ELSE [kind |-> "Ok", bytes |-> to_le_bytes(Len(message) + HeaderLen) \o message]

try_into(message) ==
    IF ~LenFitsU32(message)
    THEN [kind |-> "Corrupt", bytes |-> <<>>]
    ELSE [kind |-> "Ok", bytes |-> to_le_bytes(Len(message)) \o message]

\* Frame::try_from(&mut buffer): the result and the buffer it leaves.
try_from_eats_header(buffer) ==
    IF Len(buffer) < HeaderLen
    THEN [kind |-> "NotReady", message |-> <<>>, buffer |-> buffer]
    ELSE LET size == from_le_bytes(SubSeq(buffer, 1, HeaderLen))
             body == Drain(buffer, HeaderLen).rest
         IN  IF ~FitsUsize(size)
             THEN [kind |-> "Corrupt", message |-> <<>>, buffer |-> buffer]
             ELSE IF size + HeaderLen > Len(buffer)
             THEN [kind |-> "NotReady", message |-> <<>>, buffer |-> body]
             ELSE [kind |-> "Ok",
                   message |-> Drain(body, size).taken,
                   buffer |-> Drain(body, size).rest]

try_from(buffer) ==
    IF Len(buffer) < HeaderLen
    THEN [kind |-> "NotReady", message |-> <<>>, buffer |-> buffer]
    ELSE LET size == from_le_bytes(SubSeq(buffer, 1, HeaderLen))
             body == Drain(buffer, HeaderLen).rest
         IN  IF ~FitsUsize(size)
             THEN [kind |-> "Corrupt", message |-> <<>>, buffer |-> buffer]
             ELSE IF size + HeaderLen > Len(buffer)
             THEN [kind |-> "NotReady", message |-> <<>>, buffer |-> buffer]
             ELSE [kind |-> "Ok",
                   message |-> Drain(body, size).taken,
                   buffer |-> Drain(body, size).rest]

\* The wire bytes of a list of encodable messages, back to back.
RECURSIVE Wire(_)
Wire(msgs) ==
    IF msgs = <<>> THEN <<>> ELSE try_into(Head(msgs)).bytes \o Wire(Tail(msgs))

IsPrefix(s, t) == Len(s) <= Len(t) /\ SubSeq(t, 1, Len(s)) = s

NoResult == [kind |-> "none", message |-> <<>>]

NoResponse == [kind |-> "none", n |-> 0]

Returned(kind) == [kind |-> kind, message |-> <<>>]

\* MessageSink::new
SinkInit ==
    /\ status = "Open"
    /\ read_buffer = <<>>
    /\ write_buffer = <<>>
    /\ waker = FALSE
    /\ limit = USIZE_MAX
    /\ pc = "idle"
    /\ result = NoResult
    /\ op = "none"
    /\ response = NoResponse
    /\ write_result = "none"
    /\ woken = FALSE
    /\ stream_in = <<>>
    /\ stream_eof = FALSE
    /\ sent = <<>>
    /\ rx = <<>>
    /\ tx = <<>>
    /\ written = <<>>
    /\ delivered = <<>>
    /\ notified = TRUE
    /\ read_waker = FALSE
    /\ write_waker = FALSE

CodecInit ==
    /\ codec_messages = <<>>
    /\ codec_extra = <<>>
    /\ codec_buffer = <<>>
    /\ codec_cut = <<>>
    /\ codec_parsed = <<>>
    /\ codec_result = "none"

\* a sink on a stream to a peer, polled whenever the caller likes
Init ==
    /\ SinkInit /\ CodecInit
    /\ stream_kind = "peer" /\ wake_driven = FALSE /\ usize_bits = UsizeBits

\* What a step does to the wakers: the task is notified (n), the stream holds
\* its waker for read-readiness (r) and for write-readiness (w).
Wake(n, r, w) ==
    IF wake_driven
    THEN notified' = n /\ read_waker' = r /\ write_waker' = w
    ELSE UNCHANGED << notified, read_waker, write_waker >>

\* the stream has become readable: it wakes the task that waits for that
WakeReader == Wake(notified \/ read_waker, FALSE, write_waker)

(***************************************************************************)
(* The stream: what the peer does to it.                                   *)
(***************************************************************************)
\* the peer writes one frame; its bytes become readable
peer_send(message) ==
    /\ pc = "idle"
    /\ ~stream_eof
    /\ Len(written) + Len(sent) < MaxTraffic
    /\ stream_in' = stream_in \o try_into(message).bytes
    /\ sent' = Append(sent, message)
    /\ result' = NoResult /\ op' = "none" /\ response' = NoResponse
    /\ write_result' = "none" /\ woken' = FALSE
    /\ WakeReader
    /\ UNCHANGED << status, read_buffer, write_buffer, waker, limit, pc,
                    stream_eof, rx, tx, written, delivered >>
    /\ UNCHANGED << codec_vars, config_vars >>

\* the peer shuts down its write side: reads past the last byte return 0
peer_shutdown ==
    /\ pc = "idle"
    /\ ~stream_eof
    /\ stream_eof' = TRUE
    /\ result' = NoResult /\ op' = "none" /\ response' = NoResponse
    /\ write_result' = "none" /\ woken' = FALSE
    /\ WakeReader
    /\ UNCHANGED << status, read_buffer, write_buffer, waker, limit, pc,
                    stream_in, sent, rx, tx, written, delivered >>
    /\ UNCHANGED << codec_vars, config_vars >>

\* What the stream may answer to poll_write(cx, buffer).
\* A loopback stream has room for all of it.
WriteResponses(buffer) ==
    IF stream_kind = "loopback"
    THEN {[kind |-> "Ok", n |-> Len(buffer)]}
    ELSE {[kind |-> "Pending", n |-> 0], [kind |-> "Err", n |-> 0]}
         \cup {[kind |-> "Ok", n |-> k] : k \in 0..Len(buffer)}

\* What the stream may answer to poll_read(cx, &mut scratch).
\* The bytes of a peer may still be on their way; a loopback stream has no
\* faults and blocks only when it holds no byte.
ReadResponses ==
    (IF stream_kind = "loopback" THEN {} ELSE {[kind |-> "Err", n |-> 0]})
    \cup (IF stream_in = <<>> /\ stream_eof
          THEN {[kind |-> "Ok", n |-> 0]}
          ELSE IF stream_kind = "loopback" /\ stream_in # <<>>
          THEN {}
          ELSE {[kind |-> "Pending", n |-> 0]})
    \cup {[kind |-> "Ok", n |-> k] :
             k \in 1..(IF Len(stream_in) < ScratchLen THEN Len(stream_in)
                                                      ELSE ScratchLen)}

(***************************************************************************)
(* MessageSink (lib.rs).                                                   *)
(***************************************************************************)
\* read_buffer.len() + length > limit
ExceedsLimitInclusive(length, lim) == lim # USIZE_MAX /\ length >= lim

ExceedsLimitNever(length, lim) == FALSE

ExceedsLimit(length, lim) == lim # USIZE_MAX /\ length > lim

\* MessageSink::limit
set_limit(length) ==
    /\ pc = "idle"
    /\ limit' = length
    /\ result' = NoResult /\ op' = "none" /\ response' = NoResponse
    /\ write_result' = "none" /\ woken' = FALSE
    /\ UNCHANGED << status, read_buffer, write_buffer, waker, pc, stream_in,
                    stream_eof, sent, rx, tx, written, delivered >>
    /\ UNCHANGED << notified, read_waker, write_waker >>
    /\ UNCHANGED << codec_vars, config_vars >>

\* AsyncBuffer::extend: Vec::extend on the buffer (the wake is in write)
extend_at_front(buffer, vec) == vec \o buffer

extend(buffer, vec) == buffer \o vec

\* MessageSink::write, with AsyncBuffer::extend and AsyncBuffer::wake
write_wakes_on_error(message) ==
    /\ pc = "idle"
    /\ LET framed == try_into(message)
       IN  IF framed.kind = "Ok"
           THEN /\ Len(written) + Len(sent) < MaxTraffic
                /\ write_buffer' = extend(write_buffer, framed.bytes)
                /\ woken' = waker
                /\ waker' = FALSE
                /\ written' = Append(written, message)
                /\ write_result' = "Ok"
           ELSE /\ write_result' = framed.kind
                /\ woken' = waker
                /\ waker' = FALSE
                /\ UNCHANGED << write_buffer, written >>
    /\ Wake(notified \/ woken', read_waker, write_waker)
    /\ result' = NoResult /\ op' = "none" /\ response' = NoResponse
    /\ UNCHANGED << status, read_buffer, limit, pc, stream_in, stream_eof,
                    sent, rx, tx, delivered >>
    /\ UNCHANGED << codec_vars, config_vars >>

write_keeps_waker(message) ==
    /\ pc = "idle"
    /\ LET framed == try_into(message)
       IN  IF framed.kind = "Ok"
           THEN /\ Len(written) + Len(sent) < MaxTraffic
                /\ write_buffer' = extend(write_buffer, framed.bytes)
                /\ woken' = waker
                /\ waker' = waker
                /\ written' = Append(written, message)
                /\ write_result' = "Ok"
           ELSE /\ write_result' = framed.kind
                /\ woken' = FALSE
                /\ UNCHANGED << write_buffer, waker, written >>
    /\ Wake(notified \/ woken', read_waker, write_waker)
    /\ result' = NoResult /\ op' = "none" /\ response' = NoResponse
    /\ UNCHANGED << status, read_buffer, limit, pc, stream_in, stream_eof,
                    sent, rx, tx, delivered >>
    /\ UNCHANGED << codec_vars, config_vars >>

write(message) ==
    /\ pc = "idle"
    /\ LET framed == try_into(message)
       IN  IF framed.kind = "Ok"
           THEN /\ Len(written) + Len(sent) < MaxTraffic
                /\ write_buffer' = extend(write_buffer, framed.bytes)
                /\ woken' = waker
                /\ waker' = FALSE
                /\ written' = Append(written, message)
                /\ write_result' = "Ok"
           ELSE /\ write_result' = framed.kind
                /\ woken' = FALSE
                /\ UNCHANGED << write_buffer, waker, written >>
    /\ Wake(notified \/ woken', read_waker, write_waker)
    /\ result' = NoResult /\ op' = "none" /\ response' = NoResponse
    /\ UNCHANGED << status, read_buffer, limit, pc, stream_in, stream_eof,
                    sent, rx, tx, delivered >>
    /\ UNCHANGED << codec_vars, config_vars >>

\* MessageSink::close
close_drops_outbound ==
    /\ pc = "idle"
    /\ status' = "Closing"
    /\ result' = NoResult /\ op' = "none" /\ response' = NoResponse
    /\ write_result' = "none" /\ woken' = FALSE
    /\ write_buffer' = <<>>
    /\ UNCHANGED << read_buffer, waker, limit, pc, stream_in,
                    stream_eof, sent, rx, tx, written, delivered >>
    /\ UNCHANGED << notified, read_waker, write_waker >>
    /\ UNCHANGED << codec_vars, config_vars >>

close ==
    /\ pc = "idle"
    /\ status' = "Closing"
    /\ result' = NoResult /\ op' = "none" /\ response' = NoResponse
    /\ write_result' = "none" /\ woken' = FALSE
    /\ UNCHANGED << read_buffer, write_buffer, waker, limit, pc, stream_in,
                    stream_eof, sent, rx, tx, written, delivered >>
    /\ UNCHANGED << notified, read_waker, write_waker >>
    /\ UNCHANGED << codec_vars, config_vars >>

\* the fault paths of poll: sink.close(); return Poll::Ready(Err(..))
fault_closes_at_once(kind) ==
    /\ status' = "Closed"
    /\ result' = Returned(kind)
    /\ pc' = "idle"

fault(kind) ==
    /\ status' = "Closing"
    /\ result' = Returned(kind)
    /\ pc' = "idle"

\* poll of a Closing sink (lib.rs 95-104): poll_close on the stream
poll_closing_reports_early ==
    /\ op' = "close"
    /\ \E ready \in BOOLEAN :
          IF ready
          THEN /\ status' = "Closed"
               /\ result' = Returned("Closed")
               /\ response' = [kind |-> "Ok", n |-> 0]
          ELSE /\ status' = "Closed"
               /\ result' = Returned("Closed")
               /\ response' = [kind |-> "Pending", n |-> 0]

poll_closing ==
    /\ op' = "close"
    /\ \E ready \in BOOLEAN :
          IF ready
          THEN /\ status' = "Closed"
               /\ result' = Returned("Closed")
               /\ response' = [kind |-> "Ok", n |-> 0]
          ELSE /\ status' = status
               /\ result' = Returned("Pending")
               /\ response' = [kind |-> "Pending", n |-> 0]

\* poll, from its entry to the head of the read loop (lib.rs 90-120).  A task
\* that got Poll::Ready has not suspended: it may poll again at once.
poll_begin ==
    /\ pc = "idle"
    /\ wake_driven => notified
    /\ \/ /\ status = "Closing"
          /\ poll_closing
          /\ Wake(response'.kind # "Pending", read_waker, response'.kind = "Pending")
          /\ UNCHANGED << write_buffer, waker, pc, tx, stream_in >>
       \/ /\ status = "Closed"
          /\ op' = "none"
          /\ response' = NoResponse
          /\ result' = Returned("Closed")
          /\ Wake(TRUE, read_waker, write_waker)
          /\ UNCHANGED << status, write_buffer, waker, pc, tx, stream_in >>
       \/ /\ status = "Open"
          /\ op' = "write"
          /\ \E answer \in WriteResponses(write_buffer) :
                /\ response' = answer
                /\ IF answer.kind = "Err"
                   THEN /\ fault("Write")
                        /\ Wake(TRUE, read_waker, FALSE)
                        /\ UNCHANGED << write_buffer, waker, tx, stream_in >>
                   ELSE
                     /\ IF answer.kind = "Pending"
                        THEN UNCHANGED << write_buffer, tx, stream_in >>
                        ELSE /\ write_buffer' = Drain(write_buffer, answer.n).rest
                             /\ tx' = tx \o SubSeq(write_buffer, 1, answer.n)
                             /\ stream_in' =
                                   IF stream_kind = "loopback"
                                   THEN stream_in \o SubSeq(write_buffer, 1, answer.n)
                                   ELSE stream_in
                     /\ waker' = TRUE
                     /\ Wake(FALSE, read_waker, answer.kind = "Pending")
                     /\ pc' = "read"
                     /\ result' = NoResult
                     /\ status' = status
    /\ write_result' = "none" /\ woken' = FALSE
    /\ UNCHANGED << read_buffer, limit, stream_eof, sent, rx, written, delivered >>
    /\ UNCHANGED << codec_vars, config_vars >>

\* Frame::try_from on read_buffer and what poll does with its result:
\* lib.rs 139-146 inside the loop (after_loop = FALSE), 148-156 after it.
poll_parse_clears_buffer(buffer, after_loop) ==
    LET parsed == try_from(buffer)
    IN  /\ read_buffer' = IF parsed.kind = "Ok" THEN <<>> ELSE parsed.buffer
        /\ IF parsed.kind = "Ok"
           THEN /\ result' = [kind |-> "Ok", message |-> parsed.message]
                /\ delivered' = Append(delivered, parsed.message)
                /\ pc' = "idle"
                /\ status' = status
           ELSE IF parsed.kind = "NotReady"
           THEN /\ result' = IF after_loop THEN Returned("Pending") ELSE NoResult
                /\ pc' = IF after_loop THEN "idle" ELSE "read"
                /\ UNCHANGED << delivered, status >>
           ELSE /\ status' = "Closing"
                /\ result' = Returned("Parse")
                /\ pc' = "idle"
                /\ UNCHANGED delivered

poll_parse_suspends_in_loop(buffer, after_loop) ==
    LET parsed == try_from(buffer)
    IN  /\ read_buffer' = parsed.buffer
        /\ IF parsed.kind = "Ok"
           THEN /\ result' = [kind |-> "Ok", message |-> parsed.message]
                /\ delivered' = Append(delivered, parsed.message)
                /\ pc' = "idle"
                /\ status' = status
           ELSE IF parsed.kind = "NotReady"
           THEN /\ result' = Returned("Pending")
                /\ pc' = "idle"
                /\ UNCHANGED << delivered, status >>
           ELSE /\ fault("Parse")
                /\ UNCHANGED delivered

poll_parse_no_final_decode(buffer, after_loop) ==
    LET parsed == try_from(buffer)
    IN  IF after_loop
        THEN /\ read_buffer' = buffer
             /\ result' = Returned("Pending")
             /\ pc' = "idle"
             /\ UNCHANGED << delivered, status >>
        ELSE /\ read_buffer' = parsed.buffer
             /\ IF parsed.kind = "Ok"
                THEN /\ result' = [kind |-> "Ok", message |-> parsed.message]
                     /\ delivered' = Append(delivered, parsed.message)
                     /\ pc' = "idle"
                     /\ status' = status
                ELSE IF parsed.kind = "NotReady"
                THEN /\ result' = NoResult
                     /\ pc' = "read"
                     /\ UNCHANGED << delivered, status >>
                ELSE /\ fault("Parse")
                     /\ UNCHANGED delivered

poll_parse(buffer, after_loop) ==
    LET parsed == try_from(buffer)
    IN  /\ read_buffer' = parsed.buffer
        /\ IF parsed.kind = "Ok"
           THEN /\ result' = [kind |-> "Ok", message |-> parsed.message]
                /\ delivered' = Append(delivered, parsed.message)
                /\ pc' = "idle"
                /\ status' = status
           ELSE IF parsed.kind = "NotReady"
           THEN /\ result' = IF after_loop THEN Returned("Pending") ELSE NoResult
                /\ pc' = IF after_loop THEN "idle" ELSE "read"
                /\ UNCHANGED << delivered, status >>
           ELSE /\ fault("Parse")
                /\ UNCHANGED delivered

\* one turn of the read loop of poll, and the code after the loop when the
\* read is pending (lib.rs 121-157)
poll_read ==
    /\ pc = "read"
    /\ op' = "read"
    /\ \E answer \in ReadResponses :
          /\ response' = answer
          /\ IF answer.kind = "Err"
             THEN /\ fault("Read")
                  /\ UNCHANGED << read_buffer, stream_in, rx, delivered >>
             ELSE IF answer.kind = "Pending"
             THEN /\ poll_parse(read_buffer, TRUE)
                  /\ UNCHANGED << stream_in, rx >>
             ELSE /\ stream_in' = SubSeq(stream_in, answer.n + 1, Len(stream_in))
                  /\ rx' = rx \o SubSeq(stream_in, 1, answer.n)
                  /\ IF ExceedsLimit(Len(read_buffer) + answer.n, limit)
                     THEN /\ fault("LimitExceeded")
                          /\ UNCHANGED << read_buffer, delivered >>
                     ELSE poll_parse(read_buffer \o SubSeq(stream_in, 1, answer.n),
                                     FALSE)
    /\ Wake(pc' = "idle" /\ result'.kind # "Pending",
            response'.kind = "Pending", write_waker)
    /\ write_result' = "none" /\ woken' = FALSE
    /\ UNCHANGED << write_buffer, waker, limit, stream_eof, sent, tx, written >>
    /\ UNCHANGED << codec_vars, config_vars >>

LimitArgs == {LimitArg}

Next ==
    \/ \E message \in SinkMessages : peer_send(message)
    \/ peer_shutdown
    \/ \E length \in LimitArgs : set_limit(length)
    \/ \E message \in SinkMessages \cup {Oversize} : write(message)
    \/ close
    \/ poll_begin
    \/ poll_read

Spec == Init /\ [][Next]_vars

\* a poll of a Closing sink in which the stream's half-close completes
half_close_completes ==
    status = "Closing" /\ poll_begin /\ response'.kind = "Ok"

\* Spec with a caller that keeps polling a Closing sink, on a stream whose
\* half-close does not stay pending for ever.
PolledSpec == Init /\ [][Next]_vars /\ WF_vars(half_close_completes)

(***************************************************************************)
(* The sink on a loopback stream with room for every frame, as in the      *)
(* tests of lib.rs (RingBuffer), awaited by a caller that keeps polling.   *)
(***************************************************************************)
LoopInit ==
    /\ SinkInit /\ CodecInit
    /\ stream_kind = "loopback" /\ wake_driven = FALSE /\ usize_bits = UsizeBits

LoopNext ==
    \/ \E message \in SinkMessages \cup {Oversize} : write(message)
    \/ poll_begin
    \/ poll_read

LoopSpec ==
    LoopInit /\ [][LoopNext]_vars /\ WF_vars(poll_begin) /\ WF_vars(poll_read)

(***************************************************************************)
(* The sink polled by an executor: after a poll has returned pending, the  *)
(* task is polled again only when a waker it has registered fires.         *)
(***************************************************************************)
WakeInit ==
    /\ SinkInit /\ CodecInit
    /\ stream_kind = "peer" /\ wake_driven = TRUE /\ usize_bits = UsizeBits

\* the stream has become writable: it wakes the task that waits for that
stream_writable ==
    /\ pc = "idle"
    /\ write_waker
    /\ Wake(TRUE, read_waker, FALSE)
    /\ result' = NoResult /\ op' = "none" /\ response' = NoResponse
    /\ write_result' = "none" /\ woken' = FALSE
    /\ UNCHANGED << status, read_buffer, write_buffer, waker, limit, pc, stream_in,
                    stream_eof, sent, rx, tx, written, delivered >>
    /\ UNCHANGED << codec_vars, config_vars >>

\* a poll in which the stream accepts some of the bytes it is offered
stream_accepts == poll_begin /\ response'.kind = "Ok" /\ response'.n > 0

WakeNext ==
    \/ \E message \in SinkMessages : peer_send(message)
    \/ \E message \in SinkMessages \cup {Oversize} : write(message)
    \/ stream_writable
    \/ poll_begin
    \/ poll_read

\* A notified task is polled and a poll runs on; a stream that blocks a write
\* becomes writable; a stream that is offered bytes again and again accepts
\* some of them.  Nothing is assumed of the peer or of the caller of write().
WakeSpec ==
    /\ WakeInit /\ [][WakeNext]_vars
    /\ WF_vars(poll_begin) /\ WF_vars(poll_read) /\ WF_vars(stream_writable)
    /\ SF_vars(stream_accepts)

(***************************************************************************)
(* The codec on its own, as exercised by frame_test.                       *)
(***************************************************************************)
\* buffer.extend(frame.try_into().unwrap())
codec_encode(message) ==
    /\ codec_result = "none" /\ codec_extra = <<>> /\ codec_cut = <<>>
    /\ Len(codec_messages) < MaxFrames
    /\ try_into(message).kind = "Ok"
    /\ codec_buffer' = codec_buffer \o try_into(message).bytes
    /\ codec_messages' = Append(codec_messages, message)
    /\ UNCHANGED << codec_extra, codec_cut, codec_parsed, codec_result >>
    /\ UNCHANGED << sink_vars, config_vars >>

\* buffer.extend(random(3)), a byte at a time
codec_extend(byte) ==
    /\ codec_result = "none" /\ codec_cut = <<>>
    /\ Len(codec_extra) < MaxExtra
    /\ codec_buffer' = Append(codec_buffer, byte)
    /\ codec_extra' = Append(codec_extra, byte)
    /\ UNCHANGED << codec_messages, codec_cut, codec_parsed, codec_result >>
    /\ UNCHANGED << sink_vars, config_vars >>

\* buffer.truncate(k)
codec_truncate(k) ==
    /\ codec_result = "none" /\ codec_cut = <<>> /\ codec_extra = <<>>
    /\ k >= 0 /\ k < Len(codec_buffer)
    /\ codec_buffer' = SubSeq(codec_buffer, 1, k)
    /\ codec_cut' = SubSeq(codec_buffer, k + 1, Len(codec_buffer))
    /\ UNCHANGED << codec_messages, codec_extra, codec_parsed, codec_result >>
    /\ UNCHANGED << sink_vars, config_vars >>

\* the truncated bytes arrive after all, a byte at a time
codec_refill ==
    /\ codec_cut # <<>>
    /\ codec_buffer' = Append(codec_buffer, Head(codec_cut))
    /\ codec_cut' = Tail(codec_cut)
    /\ UNCHANGED << codec_messages, codec_extra, codec_parsed, codec_result >>
    /\ UNCHANGED << sink_vars, config_vars >>

\* Frame::try_from(&mut buffer)
codec_decode ==
    LET r == try_from(codec_buffer)
    IN  /\ codec_buffer' = r.buffer
        /\ codec_result' = r.kind
        /\ codec_parsed' = IF r.kind = "Ok" THEN Append(codec_parsed, r.message)
                                            ELSE codec_parsed
        /\ UNCHANGED << codec_messages, codec_extra, codec_cut >>
        /\ UNCHANGED << sink_vars, config_vars >>

\* The raw bytes appended after the frames: enough to spell a header that
\* announces 65536 bytes, << 0, 0, 1, 0 >>.
ExtraBytes == {0, 1}

CodecNext ==
    \/ \E message \in MessageSet : codec_encode(message)
    \/ \E byte \in ExtraBytes : codec_extend(byte)
    \/ \E k \in 0..(Len(codec_buffer) - 1) : codec_truncate(k)
    \/ codec_refill
    \/ codec_decode

\* The targets the codec is built for: usize of 64 bits, and of 16 bits, the
\* narrower size type for which try_from has its Corrupt result.
TargetWidths == {NarrowBits, UsizeBits}

CodecSpecInit ==
    /\ SinkInit /\ CodecInit
    /\ stream_kind = "peer" /\ wake_driven = FALSE /\ usize_bits \in TargetWidths

CodecSpec == CodecSpecInit /\ [][CodecNext]_vars

(***************************************************************************)
(* Properties of the codec, checked under CodecSpec.                       *)
(***************************************************************************)
\* The little-endian bytes of a length, written out digit by digit.
IsLittleEndianOf(header, n) ==
    /\ Len(header) = 4
    /\ header[1] = n % 256
    /\ header[2] = (n \div 256) % 256
    /\ header[3] = (n \div 65536) % 256
    /\ header[4] = (n \div 16777216) % 256

\* C1 (round trip): a buffer holding exactly the encoding of one message m
\* is 4 + len(m) bytes long, starts with len(m) as 4 little-endian bytes
\* followed by m, and the decode of it returns m and leaves the buffer empty.
C1_RoundTrip ==
    [][ ( /\ Len(codec_messages) = 1 /\ codec_extra = <<>> /\ codec_cut = <<>>
          /\ codec_result = "none"
          /\ codec_decode )
        => LET m == codec_messages[1]
           IN  /\ Len(codec_buffer) = 4 + Len(m)
               /\ IsLittleEndianOf(SubSeq(codec_buffer, 1, 4), Len(m))
               /\ SubSeq(codec_buffer, 5, Len(codec_buffer)) = m
               /\ codec_result' = "Ok"
               /\ codec_parsed' = << m >>
               /\ codec_buffer' = <<>> ]_vars

C1_Witness ==
    /\ Len(codec_messages) = 1 /\ codec_messages[1] # <<>>
    /\ codec_extra = <<>> /\ codec_cut = <<>>
    /\ codec_result = "Ok" /\ codec_parsed = codec_messages /\ codec_buffer = <<>>

\* C2 (partial buffer): while only a proper prefix of the encoding of m is
\* in the buffer, decode returns NotReady and leaves the buffer as it was;
\* once the missing bytes have been appended after such a NotReady, the
\* retried decode returns m and empties the buffer.
C2_PartialBuffer ==
    [][ ( /\ Len(codec_messages) = 1 /\ codec_extra = <<>> /\ codec_parsed = <<>>
          /\ codec_decode )
        => /\ codec_cut # <<>>
              => codec_result' = "NotReady" /\ codec_buffer' = codec_buffer
           /\ (codec_cut = <<>> /\ codec_result = "NotReady")
              => /\ codec_result' = "Ok"
                 /\ codec_parsed' = codec_messages
                 /\ codec_buffer' = <<>> ]_vars

C2_Witness ==
    /\ Len(codec_messages) = 1 /\ codec_extra = <<>>
    /\ codec_cut # <<>> /\ Len(codec_buffer) >= HeaderLen
    /\ codec_result = "NotReady" /\ codec_parsed = <<>>

\* C3 (multi-frame order): on a buffer made of the encodings of m1..mk and
\* nothing else, the messages decoded so far are always a prefix of m1..mk,
\* and when decode answers NotReady on the whole concatenation, all of
\* m1..mk have been decoded and the buffer is empty.
C3_MultiFrame ==
    /\ [](codec_extra = <<>> => IsPrefix(codec_parsed, codec_messages))
    /\ [][ ( /\ codec_extra = <<>> /\ codec_cut = <<>>
            /\ codec_decode
            /\ codec_result' = "NotReady" )
          => codec_parsed' = codec_messages /\ codec_buffer' = <<>> ]_vars

C3_Witness ==
    /\ Len(codec_messages) >= 3 /\ codec_messages[1] # codec_messages[2]
    /\ codec_extra = <<>> /\ codec_cut = <<>>
    /\ codec_result = "NotReady"
    /\ codec_parsed = codec_messages /\ codec_buffer = <<>>

\* C4 (trailing bytes): when the buffer holds the encoding of m followed by
\* extra bytes x, decode returns m and leaves exactly x in the buffer.
C4_TrailingBytes ==
    [][ ( /\ Len(codec_messages) = 1 /\ codec_extra # <<>> /\ codec_cut = <<>>
          /\ codec_parsed = <<>>
          /\ codec_decode )
        => /\ codec_result' = "Ok"
           /\ codec_parsed' = codec_messages
           /\ codec_buffer' = codec_extra ]_vars

C4_Witness ==
    /\ Len(codec_messages) = 1 /\ codec_messages[1] # <<>>
    /\ Len(codec_extra) >= 2 /\ codec_cut = <<>>
    /\ codec_result = "Ok" /\ codec_parsed = codec_messages
    /\ codec_buffer = codec_extra

(***************************************************************************)
(* Properties of the sink, checked under Spec.                             *)
(***************************************************************************)
FaultKinds == {"Write", "Read", "LimitExceeded", "Parse"}

\* C5 (inbound FIFO): while the sink is Open, the bytes read from the
\* stream are exactly the frames of the messages returned so far, in order,
\* followed by the inbound buffer; the messages returned are a prefix of the
\* messages the peer framed; a poll returns at most one message, the frame at
\* the front of the inbound bytes, and what follows it stays in the buffer.
C5_InboundFifo ==
    [][ /\ status' = "Open" => rx' = Wire(delivered') \o read_buffer'
        /\ IsPrefix(delivered', sent')
        /\ delivered' # delivered
           => /\ result'.kind = "Ok"
              /\ delivered' = Append(delivered, result'.message)
              /\ pc' = "idle"
        /\ result'.kind = "Ok" => delivered' = Append(delivered, result'.message)
      ]_vars

C5_Witness ==
    /\ status = "Open"
    /\ result.kind = "Ok"
    /\ delivered = << result.message >>
    /\ Len(read_buffer) >= HeaderLen
    /\ Len(sent) = 2 /\ sent[1] # sent[2]
    /\ rx = Wire(sent)

\* C6 (outbound order): the bytes accepted by the stream so far followed by
\* the outbound buffer are always the frames of the messages accepted by
\* write(), in call order; a stream write that accepts n bytes removes
\* exactly the first n bytes of the outbound buffer.
C6_OutboundOrder ==
    [][ /\ tx' \o write_buffer' = Wire(written')
        /\ (op' = "write" /\ response'.kind = "Ok")
           => /\ tx' = tx \o SubSeq(write_buffer, 1, response'.n)
              /\ write_buffer = SubSeq(write_buffer, 1, response'.n) \o write_buffer'
              /\ written' = written
        /\ (op' = "write" /\ response'.kind # "Ok")
           => tx' = tx /\ write_buffer' = write_buffer
      ]_vars

C6_Witness ==
    /\ Len(written) = 2 /\ written[1] # written[2]
    /\ op = "write" /\ response.kind = "Ok"
    /\ tx # <<>> /\ write_buffer # <<>>
    /\ Len(tx) > HeaderLen + Len(written[1])

\* C7 as stated: the inbound buffer is never longer than the configured
\* limit, whatever limit(), write(), close() and poll calls were made.
C7_Original == limit = USIZE_MAX \/ Len(read_buffer) <= limit

\* C7 (limit invariant, amended): no step takes the inbound buffer past the
\* configured limit unless it is a limit() call with a length below the
\* number of bytes already buffered: from a state where the buffer is within
\* the old and the new limit, the next state has it within the new limit.
C7_LimitPreserved ==
    [][ ( /\ limit = USIZE_MAX \/ Len(read_buffer) <= limit
          /\ limit' = USIZE_MAX \/ Len(read_buffer) <= limit' )
        => (limit' = USIZE_MAX \/ Len(read_buffer') <= limit') ]_vars

C7_Witness ==
    /\ limit # USIZE_MAX
    /\ op = "read" /\ response.kind = "Ok" /\ response.n > 0
    /\ Len(read_buffer) = limit

\* C8 (limit fault): in a read of the read loop that returns n bytes, when
\* the inbound buffer's length plus n is greater than the limit the poll
\* returns LimitExceeded at once, the buffer is left as it was and the loop
\* is over; when the sum is at most the limit no limit fault is returned and
\* the n bytes are appended (the buffer followed by the bytes is the frame
\* of the message returned, if any, followed by the new buffer).
C8_LimitFault ==
    [][ (op' = "read" /\ response'.kind = "Ok")
        => LET n == response'.n
               over == limit # USIZE_MAX /\ Len(read_buffer) + n > limit
               chunk == SubSeq(stream_in, 1, n)
           IN  /\ over => /\ result' = Returned("LimitExceeded")
                          /\ read_buffer' = read_buffer
                          /\ pc' = "idle"
               /\ ~over => /\ result'.kind # "LimitExceeded"
                           /\ read_buffer \o chunk =
                                (IF result'.kind = "Ok"
                                 THEN try_into(result'.message).bytes
                                 ELSE <<>>) \o read_buffer'
               /\ rx' = rx \o chunk
      ]_vars

\* a fault raised by small frames that each fit the limit
C8_Witness ==
    /\ result = Returned("LimitExceeded")
    /\ limit # USIZE_MAX
    /\ op = "read" /\ response.kind = "Ok"
    /\ response.n > limit
    /\ Len(sent) = 2
    /\ \A i \in 1..2 : HeaderLen + Len(sent[i]) <= limit

C10_ClosedTerminal ==
    [][ status = "Closed"
        => /\ status' = "Closed"
           /\ result'.kind \in {"none", "Closed"}
           /\ op' = "none" ]_vars

(***************************************************************************)
(* The close handshake, checked under PolledSpec.                          *)
(***************************************************************************)
\* C11: every poll of a Closing sink attempts the half-close of the stream
\* and nothing else; while the half-close is pending the poll returns pending
\* and the sink stays Closing; the poll in which it completes sets Closed and
\* reports the closed-fault; no closed-fault is reported by a Closing sink
\* before that; and a Closing sink that keeps being polled, on a stream whose
\* half-close completes in the end, does report the closed-fault.
C11_CloseHandshake ==
    /\ [][(status = "Open" /\ status' = "Closing" /\ result'.kind = "none")
              => (op' = "none" /\ pc' = "idle")]_vars
    /\ [][(status = "Closing" /\ result'.kind # "none")
              => /\ op' = "close"
                 /\ \/ /\ response'.kind = "Pending"
                       /\ result' = Returned("Pending")
                       /\ status' = "Closing"
                    \/ /\ response'.kind = "Ok"
                       /\ result' = Returned("Closed")
                       /\ status' = "Closed"]_vars
    /\ (status = "Closing") ~> (result = Returned("Closed") /\ status = "Closed")

\* a poll found the half-close complete and reported the closed-fault
C11_Witness ==
    /\ status = "Closed"
    /\ op = "close"
    /\ response.kind = "Ok"
    /\ result = Returned("Closed")
    /\ written # <<>>

(***************************************************************************)
(* write() and the outbound buffer, checked under Spec.                    *)
(***************************************************************************)
\* C12: a write() of a message whose length does not fit the 4-byte header
\* fails at once and changes nothing: the lifecycle state, the outbound and
\* inbound buffers, the limit and the registered waker are as before, nothing
\* is handed to the stream and no waker is woken; and after such a failure a
\* write() of an encodable message is still accepted.
C12_OverflowHarmless ==
    /\ [][write_result' = "Corrupt"
              => /\ UNCHANGED << status, write_buffer, read_buffer, waker, limit,
                                 pc, written, tx, rx, stream_in >>
                 /\ ~woken'
                 /\ op' = "none"]_vars
    /\ []((write_result = "Corrupt" /\ Len(written) + Len(sent) < MaxTraffic)
              => \A message \in SinkMessages :
                    ENABLED (write(message) /\ write_result' = "Ok"
                                /\ write_buffer' = write_buffer \o try_into(message).bytes))

\* an oversize write was refused while a waker was registered and frames
\* were waiting in the outbound buffer
C12_Witness ==
    /\ write_result = "Corrupt"
    /\ waker
    /\ write_buffer # <<>>
    /\ status = "Open"

(***************************************************************************)
(* Suspension, checked under Spec.                                         *)
(***************************************************************************)
\* C13 as stated: a poll returns pending only when the inbound buffer holds
\* no complete frame and the stream has answered its read with would-block.
C13_Original ==
    [][result'.kind = "Pending"
          => /\ try_from(read_buffer').kind = "NotReady"
             /\ op' = "read"
             /\ response'.kind = "Pending"]_vars

\* C13: a poll of an Open sink returns pending only when the stream's read
\* would block and the inbound buffer holds no complete frame, and it leaves
\* the sink Open; a poll of a Closing sink returns pending only when the
\* half-close is pending, without reading; a Closed sink never returns
\* pending; and a sink that has written and read nothing returns pending from
\* a poll whose read would block.
C13_PendingWhenBlocked ==
    /\ [][result'.kind = "Pending"
              => \/ /\ status = "Open" /\ status' = "Open"
                    /\ op' = "read"
                    /\ response'.kind = "Pending"
                    /\ try_from(read_buffer').kind = "NotReady"
                    /\ read_buffer' = read_buffer
                 \/ /\ status = "Closing" /\ status' = "Closing"
                    /\ op' = "close"
                    /\ response'.kind = "Pending"
                    /\ UNCHANGED << read_buffer, rx, stream_in >>]_vars
    /\ [][(pc = "read" /\ read_buffer = <<>> /\ rx = <<>> /\ written = <<>>
               /\ op' = "read" /\ response'.kind = "Pending")
              => result' = Returned("Pending")]_vars

\* a new sink, nothing written and nothing to read, polled: pending
C13_Witness ==
    /\ result = Returned("Pending")
    /\ status = "Open"
    /\ op = "read"
    /\ written = <<>> /\ sent = <<>> /\ rx = <<>> /\ tx = <<>>
    /\ limit = USIZE_MAX /\ ~stream_eof

(***************************************************************************)
(* Loopback delivery, checked under LoopSpec.                              *)
(***************************************************************************)
\* C14: on a loopback stream with room for every frame, each message
\* accepted by write() on an Open sink is, with continued polling, returned
\* by a poll, exactly as written and in the order written; the write step of
\* every poll hands the whole outbound buffer to the stream, and a poll
\* returns nothing but messages and pending.
C14_LoopbackDelivery ==
    /\ \A i \in 1..MaxTraffic :
          (Len(written) >= i) ~> (Len(delivered) >= i /\ delivered[i] = written[i])
    /\ [](IsPrefix(delivered, written) /\ status = "Open")
    /\ [][op' = "write" => (write_buffer' = <<>> /\ tx' = Wire(written))]_vars
    /\ [][result'.kind \in {"none", "Ok", "Pending"}]_vars

\* a poll has returned the message that write() was given
C14_Witness ==
    /\ stream_kind = "loopback"
    /\ result.kind = "Ok"
    /\ result.message = << 0 >>
    /\ written = << << 0 >> >>
    /\ delivered = written

\* C15 as stated: every poll of an Open sink that reaches the write step
\* registers the task's waker with the outbound buffer.
C15_Original ==
    [][(status = "Open" /\ op' = "write") => waker']_vars

\* C15: the outbound buffer holds one waker or none; a poll of an Open sink
\* whose stream write does not fault registers the task's waker (a poll whose
\* write faults leaves the registration as it was); a successful write()
\* wakes the registered waker, if there is one, and clears the registration,
\* so that a further write() with no poll in between wakes no one; nothing
\* else registers, clears or wakes.
C15_SingleSlotWake ==
    /\ [](waker \in BOOLEAN)
    /\ [][(status = "Open" /\ op' = "write")
              => IF response'.kind = "Err" THEN waker' = waker ELSE waker']_vars
    /\ [][write_result' = "Ok" => (woken' = waker /\ ~waker')]_vars
    /\ [][woken' => (write_result' = "Ok" /\ waker)]_vars
    /\ [][waker' # waker
              => \/ write_result' = "Ok"
                 \/ status = "Open" /\ op' = "write" /\ response'.kind # "Err"]_vars

\* a write() has woken the waker that a poll had registered
C15_Witness ==
    /\ woken
    /\ ~waker
    /\ write_result = "Ok"
    /\ Len(written) >= 2

(***************************************************************************)
(* The read loop of poll, checked under Spec.                              *)
(***************************************************************************)
\* C16: a poll returns after finitely many stream operations, whatever the
\* stream answers: every read in the loop of poll either ends the poll
\* (message, fault or pending) or takes at least one byte off the stream, of
\* which there are finitely many before the stream would block or ends.
C16_PollReturns ==
    [][(pc = "read" /\ op' = "read")
          => (pc' = "idle" \/ Len(stream_in') < Len(stream_in))]_vars

\* the buffer starts with a whole frame: a header and the bytes it announces
StartsWithFrame(buffer) ==
    /\ Len(buffer) >= HeaderLen
    /\ Len(buffer) >= HeaderLen + from_le_bytes(SubSeq(buffer, 1, HeaderLen))

\* C17: when a poll of an Open sink returns pending, the inbound buffer does
\* not start with a whole frame; and a poll of an Open sink that finds a whole
\* frame left in the inbound buffer by an earlier poll, and whose read would
\* block, returns that frame and takes it out of the buffer.
C17_NoStrandedFrame ==
    /\ [][(status = "Open" /\ result'.kind = "Pending")
              => ~StartsWithFrame(read_buffer')]_vars
    /\ [][(pc = "read" /\ StartsWithFrame(read_buffer)
               /\ op' = "read" /\ response'.kind = "Pending")
              => LET size == from_le_bytes(SubSeq(read_buffer, 1, HeaderLen))
                 IN  /\ result'.kind = "Ok"
                     /\ result'.message =
                            SubSeq(read_buffer, HeaderLen + 1, HeaderLen + size)
                     /\ read_buffer' =
                            SubSeq(read_buffer, HeaderLen + size + 1, Len(read_buffer))
                     /\ status' = "Open"]_vars

\* a poll whose read blocked has returned a frame buffered by an earlier poll
C17_Witness ==
    /\ status = "Open"
    /\ op = "read"
    /\ response.kind = "Pending"
    /\ result.kind = "Ok"
    /\ Len(delivered) >= 2

(***************************************************************************)
(* The Corrupt result of the codec, checked under CodecSpec.               *)
(***************************************************************************)
\* C18: decode answers Corrupt exactly when the buffer holds a 4-byte header
\* whose value is not a valid size on the target, and then the header bytes
\* it has read are removed from the buffer.
C18_CorruptConsumed ==
    [][codec_decode
          => /\ codec_result' = "Corrupt"
                <=> /\ Len(codec_buffer) >= HeaderLen
                    /\ ~FitsUsize(from_le_bytes(SubSeq(codec_buffer, 1, HeaderLen)))
             /\ codec_result' = "Corrupt"
                => codec_buffer' = SubSeq(codec_buffer, HeaderLen + 1, Len(codec_buffer))]_vars

(***************************************************************************)
(* Outbound liveness, checked under WakeSpec.                              *)
(***************************************************************************)
\* C19: while the sink stays Open and is polled only when one of its wakers
\* has fired, on a stream that accepts every write it is offered in the end,
\* the bytes appended by write() are all handed to the stream: a non-empty
\* outbound buffer becomes empty.
C19_OutboundLiveness ==
    (status = "Open" /\ write_buffer # <<>>)
        ~> (write_buffer = <<>> \/ status # "Open")

(***************************************************************************)
(* Work pending at close(), checked under Spec.                            *)
(***************************************************************************)
\* C20: close() performs no stream operation and leaves both buffers, the
\* waker and the stream as they are; and once the sink is not Open, no poll
\* writes to the stream, reads from it or returns a message, and the inbound
\* buffer and the bytes waiting in the outbound buffer stay where they are,
\* whatever they hold.
C20_CloseDiscards ==
    /\ [][(status # "Closing" /\ status' = "Closing" /\ result'.kind = "none")
              => /\ op' = "none"
                 /\ UNCHANGED << read_buffer, write_buffer, waker, tx, rx,
                                 stream_in, delivered >>]_vars
    /\ [][status # "Open"
              => /\ op' \in {"none", "close"}
                 /\ result'.kind \in {"none", "Pending", "Closed"}
                 /\ UNCHANGED << tx, rx, delivered, read_buffer >>
                 /\ IsPrefix(write_buffer, write_buffer')
                 /\ status' # "Open"]_vars

\* a closing sink was polled with frames waiting in both buffers
C20_Witness ==
    /\ status = "Closing"
    /\ op = "close"
    /\ result.kind = "Pending"
    /\ write_buffer # <<>>
    /\ StartsWithFrame(read_buffer)

====
